---- MODULE Spec2Model ----
(***************************************************************************)
(* Model of frontend/app.js: the layer registry (clusters + map            *)
(* attachment), the status line, the toggles and inputs, and the async     *)
(* refresh() handler with its sequential loads.                            *)
(*                                                                         *)
(* JavaScript runs one handler at a time and an async function gives up    *)
(* control only at an await on the network, so each action below is one    *)
(* run-to-completion turn: the click handler up to its first fetch, and    *)
(* the resumption of an invocation from the arrival of a response up to    *)
(* its next fetch (or its end).  The variable turn keeps the calls the     *)
(* last turn made, in the order the code makes them.                       *)
(***************************************************************************)
EXTENDS Integers, Sequences, FiniteSets, TLC

\* ---------------------------------------------------------------- bounds
MaxRefresh == 2      \* refresh invocations (clicks) in one behaviour
MaxFeatures == 1     \* features in one response
MaxMagTenths == 200  \* largest magnitude of a seismic feature, in tenths

\* ------------------------------------------------------------- datasets
\* clusters (app.js:22-27), in the order refresh() visits them (108-118)
Keys == <<"mcd", "starbucks", "dg", "quakes">>

KeySet == {Keys[j] : j \in 1..Len(Keys)}

KeyIndex(key) == CHOOSE j \in 1..Len(Keys) : Keys[j] = key

\* the label each load puts in the status line and in the query
\* (app.js:115-117 brand argument, app.js:82 for the quakes)
Label(key) ==
  CASE key = "mcd" -> "mcdonalds"
    [] key = "starbucks" -> "starbucks"
    [] key = "dg" -> "dollargeneral"
    [] key = "quakes" -> "earthquakes"

\* ------------------------------------------------- JavaScript Number()
\* A string is a sequence of one-character strings.  A number is
\* [nan, num, digits]: NaN, or num / 10^digits with no trailing zero digit.
Digits == <<"0", "1", "2", "3", "4", "5", "6", "7", "8", "9">>

IsDigit(c) == \E d \in 1..10 : Digits[d] = c

DigitVal(c) == (CHOOSE d \in 1..10 : Digits[d] = c) - 1

IsSpace(c) == c = " "

NaN == [nan |-> TRUE, num |-> 0, digits |-> 0]

Num(n) == [nan |-> FALSE, num |-> n, digits |-> 0]

RECURSIVE Normalize(_)
Normalize(x) ==
  IF x.nan \/ x.digits = 0 \/ x.num % 10 # 0 THEN x
  ELSE Normalize([x EXCEPT !.num = x.num \div 10, !.digits = x.digits - 1])

RECURSIVE TrimLeft(_)
TrimLeft(s) == IF s # <<>> /\ IsSpace(Head(s)) THEN TrimLeft(Tail(s)) ELSE s

RECURSIVE TrimRight(_)
TrimRight(s) ==
  IF s # <<>> /\ IsSpace(s[Len(s)]) THEN TrimRight(SubSeq(s, 1, Len(s) - 1)) ELSE s

\* value of a run of decimal digits read left to right
RECURSIVE DigitsValue(_, _)
DigitsValue(s, acc) ==
  IF s = <<>> THEN acc ELSE DigitsValue(Tail(s), acc * 10 + DigitVal(Head(s)))

AllDigits(s) == \A j \in 1..Len(s) : IsDigit(s[j])

DotAt(s) == {j \in 1..Len(s) : s[j] = "."}

\* StrUnsignedDecimalLiteral: digits, digits "." digits?, "." digits
UnsignedLiteral(s) ==
  IF s # <<>> /\ AllDigits(s) THEN Num(DigitsValue(s, 0))
  ELSE IF Cardinality(DotAt(s)) # 1 THEN NaN
  ELSE LET d == CHOOSE j \in DotAt(s) : TRUE
           ip == SubSeq(s, 1, d - 1)
           fp == SubSeq(s, d + 1, Len(s))
       IN IF ~AllDigits(ip) \/ ~AllDigits(fp) \/ (ip = <<>> /\ fp = <<>>) THEN NaN
          ELSE Normalize([nan |-> FALSE,
                          num |-> DigitsValue(ip \o fp, 0),
                          digits |-> Len(fp)])

\* Number(string): white space is trimmed, the empty string is 0, an
\* optional sign, then a decimal literal; anything else is NaN.
StringToNumber(s) ==
  LET t == TrimRight(TrimLeft(s))
  IN IF t = <<>> THEN Num(0)
     ELSE IF Head(t) = "-"
          THEN LET u == UnsignedLiteral(Tail(t))
               IN IF u.nan THEN NaN ELSE [u EXCEPT !.num = 0 - u.num]
     ELSE IF Head(t) = "+" THEN UnsignedLiteral(Tail(t))
     ELSE UnsignedLiteral(t)

\* Number(value || dflt): a non-empty string is truthy and is converted,
\* the empty string is falsy and the default number is taken (app.js:79-80)
NumberOrDefault(value, dflt) == IF value # <<>> THEN StringToNumber(value) ELSE dflt

DefaultHours == Num(24)

DefaultMinMag == [nan |-> FALSE, num |-> 25, digits |-> 1]

\* ------------------------------------------- JavaScript values, Math
\* A value a property may hold, as far as the loaders look at it:
\* undefined, null, a string or a number.
Undefined == [type |-> "undefined", str |-> <<>>, num |-> NaN]

Null == [type |-> "null", str |-> <<>>, num |-> NaN]

JSString(s) == [type |-> "string", str |-> s, num |-> NaN]

JSNumber(x) == [type |-> "number", str |-> <<>>, num |-> x]

\* the number n / 10
Tenths(n) == Normalize([nan |-> FALSE, num |-> n, digits |-> 1])

\* value ?? dflt: the default for undefined and null only
NullishOr(value, dflt) == IF value.type \in {"undefined", "null"} THEN dflt ELSE value

\* ToNumber of an operand of *: a number is itself, undefined is NaN, null
\* is 0, a string is converted as Number() converts it
ToNumber(value) ==
  CASE value.type = "number" -> value.num
    [] value.type = "string" -> StringToNumber(value.str)
    [] value.type = "null" -> Num(0)
    [] value.type = "undefined" -> NaN

RECURSIVE Pow10(_)
Pow10(n) == IF n = 0 THEN 1 ELSE 10 * Pow10(n - 1)

\* a < b, for two numbers that are not NaN
LessThan(a, b) == a.num * Pow10(b.digits) < b.num * Pow10(a.digits)

\* a * b; NaN when an operand is NaN
Times(a, b) ==
  IF a.nan \/ b.nan THEN NaN
  ELSE Normalize([nan |-> FALSE, num |-> a.num * b.num, digits |-> a.digits + b.digits])

\* Math.min(a, b) and Math.max(a, b); NaN when an argument is NaN
MathMin(a, b) == IF a.nan \/ b.nan THEN NaN ELSE IF LessThan(b, a) THEN b ELSE a

MathMax(a, b) == IF a.nan \/ b.nan THEN NaN ELSE IF LessThan(a, b) THEN b ELSE a

\* ------------------------------------------------------------ viewport
\* What map.getBounds() returns, in millionths of a degree.  The extent is
\* Leaflet's business (centre, zoom, container size); the model draws it
\* from a few extents whose sixth decimal exercises the rounding.
Viewports ==
  { [south |-> 24396308, west |-> -124848974, north |-> 49384358, east |-> -66885444],
    [south |-> 33703652, west |-> -118668176, north |-> 34337306, east |-> -118155289],
    [south |-> -1000005, west |-> -1000004, north |-> 1000005, east |-> 1000015] }

InitialViewport == CHOOSE v \in Viewports : v.south = 24396308

\* Number.prototype.toFixed(5) of x millionths: the nearest multiple of
\* 10^-5, a tie going away from zero; the result counts 10^-5 units.
ToFixed5(x) ==
  LET a == IF x < 0 THEN 0 - x ELSE x
      n == IF a % 10 >= 5 THEN a \div 10 + 1 ELSE a \div 10
  IN IF x < 0 THEN 0 - n ELSE n

\* getBBox (app.js:31-38): south, west, north, east of the live viewport
getBBox(v) == <<ToFixed5(v.south), ToFixed5(v.west), ToFixed5(v.north), ToFixed5(v.east)>>

\* ------------------------------------------------- features, responses
\* A feature as far as the loaders look at it: whether it has a geometry,
\* the geometry's type, and whether the geometry has coordinates (a
\* [lon, lat] pair when it has), and properties.mag (undefined as well
\* when there are no properties).  "Other" is any type but "Point".
Features ==
  { [geometry |-> TRUE, type |-> "Point", coordinates |-> TRUE, mag |-> JSNumber(Tenths(45))],
    [geometry |-> TRUE, type |-> "Point", coordinates |-> FALSE, mag |-> Undefined],
    [geometry |-> TRUE, type |-> "Other", coordinates |-> TRUE, mag |-> Undefined],
    [geometry |-> TRUE, type |-> "Other", coordinates |-> FALSE, mag |-> Undefined],
    [geometry |-> FALSE, type |-> "", coordinates |-> FALSE, mag |-> Undefined] }

FeatureSeqs == UNION {[1..n -> Features] : n \in 0..MaxFeatures}

\* A response body: text that does not parse, the JSON value null, an
\* object without a features member, or an object with a features array.
Bodies ==
  { [json |-> "invalid", hasFeatures |-> FALSE, features |-> <<>>],
    [json |-> "null", hasFeatures |-> FALSE, features |-> <<>>],
    [json |-> "object", hasFeatures |-> FALSE, features |-> <<>>] }
  \cup { [json |-> "object", hasFeatures |-> TRUE, features |-> fs] : fs \in FeatureSeqs }

EmptyBody == [json |-> "object", hasFeatures |-> FALSE, features |-> <<>>]

\* The magnitudes a seismic feature may carry: none (undefined or null)
\* or a number, here from -1.0 to MaxMagTenths / 10 by tenths.
Magnitudes ==
  {Undefined, Null} \cup {JSNumber(Tenths(n)) : n \in -10..MaxMagTenths}

\* the located Point features of a seismic collection, one per magnitude
QuakeFeatures ==
  { [geometry |-> TRUE, type |-> "Point", coordinates |-> TRUE, mag |-> g]
    : g \in Magnitudes }

QuakeSeqs == UNION {[1..n -> QuakeFeatures] : n \in 0..MaxFeatures}

\* What fetch() settles with: a rejection (no connection), or a Response
\* with its ok flag, status, status text and body.
Responses ==
  { [settled |-> "rejected", ok |-> FALSE, status |-> 0, statusText |-> "", body |-> EmptyBody],
    [settled |-> "fulfilled", ok |-> FALSE, status |-> 500,
     statusText |-> "Internal Server Error", body |-> EmptyBody] }
  \cup { [settled |-> "fulfilled", ok |-> TRUE, status |-> 200, statusText |-> "OK", body |-> b]
         : b \in Bodies }

\* ----------------------------------------------------------- the state
VARIABLES
  checked,    \* layerMcd.checked .. layerQuakes.checked, by cluster key
  qHours,     \* qHours.value, a string
  qMinMag,    \* qMinMag.value, a string
  view,       \* the map's current bounds
  points,     \* number of markers in clusters[key]
  attached,   \* map.hasLayer(clusters[key])
  status,     \* statusEl.textContent, as the pieces of its template
  inflight,   \* requests awaiting their response, each with its continuation
  phase,      \* per refresh invocation: "idle", "running", "done", "failed"
  issued,     \* per refresh invocation: the cluster keys it has queried, in order
  turn        \* the last handler turn: who ran, on what, and the calls it made

vars == <<checked, qHours, qMinMag, view, points, attached, status, inflight,
          phase, issued, turn>>

Invocations == 1..MaxRefresh

\* ------------------------------------------- the calls a turn can make
\* The machine record threads the state through the statements of one
\* turn: registry, status, requests, the calls made so far, and the error
\* thrown ("" while none is pending).
Call(op, key, msg) == [op |-> op, key |-> key, msg |-> msg]

Machine(inv) ==
  [inv |-> inv, points |-> points, attached |-> attached, status |-> status,
   inflight |-> inflight, issued |-> issued[inv], phase |-> "running",
   calls |-> <<>>, err |-> ""]

Throw(m, message) == [m EXCEPT !.err = message]

\* setStatus (app.js:29)
setStatus(m, msg) ==
  [m EXCEPT !.status = msg, !.calls = @ \o <<Call("setStatus", "", msg)>>]

\* clearLayer flipping the attachment instead of removing the group
clearLayerFlipsAttached(m, key) ==
  [m EXCEPT !.points[key] = 0, !.attached[key] = ~@,
            !.calls = @ \o <<Call("clearLayer", key, <<>>)>>]

\* clearLayer without its removeLayer: the group is emptied and stays on
\* the map
clearLayerKeepsAttached(m, key) ==
  [m EXCEPT !.points[key] = 0, !.calls = @ \o <<Call("clearLayer", key, <<>>)>>]

\* clearLayer (app.js:40-43): clearLayers() empties the group; the group
\* is taken off the map when it is on it.
clearLayer(m, key) ==
  LET emptied == [m EXCEPT !.points[key] = 0, !.calls = @ \o <<Call("clearLayer", key, <<>>)>>]
  IN IF emptied.attached[key] THEN [emptied EXCEPT !.attached[key] = FALSE] ELSE emptied

\* ensureLayer without its map.addLayer: the group stays as it is
ensureLayerNoAttach(m, key) ==
  [m EXCEPT !.calls = @ \o <<Call("ensureLayer", key, <<>>)>>]

\* ensureLayer (app.js:45-47)
ensureLayer(m, key) ==
  LET called == [m EXCEPT !.calls = @ \o <<Call("ensureLayer", key, <<>>)>>]
  IN IF ~called.attached[key] THEN [called EXCEPT !.attached[key] = TRUE] ELSE called

\* clusters[key].addLayer(marker) (app.js:61, app.js:99)
addLayer(m, key) ==
  [m EXCEPT !.points[key] = @ + 1, !.calls = @ \o <<Call("addLayer", key, <<>>)>>]

\* fetchJSON without its r.ok test: the body of an error response is parsed
fetchJSONIgnoresOk(resp) ==
  IF resp.settled = "rejected" THEN [err |-> "Failed to fetch", gj |-> EmptyBody]
  ELSE IF resp.body.json = "invalid"
       THEN [err |-> "Unexpected token in JSON", gj |-> EmptyBody]
  ELSE [err |-> "", gj |-> resp.body]

\* fetchJSON (app.js:49-53) on a settled fetch: the error it throws ("" for
\* none) and the value it returns.
fetchJSON(resp) ==
  IF resp.settled = "rejected" THEN [err |-> "Failed to fetch", gj |-> EmptyBody]
  ELSE IF ~resp.ok
       THEN [err |-> ToString(resp.status) \o " " \o resp.statusText, gj |-> EmptyBody]
  ELSE IF resp.body.json = "invalid"
       THEN [err |-> "Unexpected token in JSON", gj |-> EmptyBody]
  ELSE [err |-> "", gj |-> resp.body]

\* gj.features || []
FeaturesOrEmpty(gj) == IF gj.hasFeatures THEN gj.features ELSE <<>>

\* gj.features?.length || 0
FeatureCount(gj) == IF gj.hasFeatures THEN Len(gj.features) ELSE 0

\* the forEach callback of addGeoJSONPointsToCluster (app.js:56-62)
BrandFeature(m, f, key) ==
  IF ~f.geometry \/ f.type # "Point" THEN m
  ELSE IF ~f.coordinates THEN Throw(m, "undefined is not iterable")
  ELSE addLayer(m, key)

RECURSIVE BrandForEach(_, _, _)
BrandForEach(m, fs, key) ==
  IF fs = <<>> \/ m.err # "" THEN m
  ELSE BrandForEach(BrandFeature(m, Head(fs), key), Tail(fs), key)

\* addGeoJSONPointsToCluster emptying the group before it adds
addGeoJSONPointsToClusterReplaces(m, gj, key) ==
  IF gj.json = "null" THEN Throw(m, "Cannot read properties of null")
  ELSE BrandForEach([m EXCEPT !.points[key] = 0], FeaturesOrEmpty(gj), key)

\* addGeoJSONPointsToCluster (app.js:55-63)
addGeoJSONPointsToCluster(m, gj, key) ==
  IF gj.json = "null" THEN Throw(m, "Cannot read properties of null")
  ELSE BrandForEach(m, FeaturesOrEmpty(gj), key)

\* the radius option of the circle marker (app.js:89, app.js:94)
CircleRadius(props_mag) ==
  LET mag == NullishOr(props_mag, JSString(<<"?">>))
  IN MathMax(Num(4), MathMin(Num(16), Times(ToNumber(mag), Num(2))))

\* L.circleMarker([lat, lon], {radius, ...}) (app.js:93-97)
circleMarker(m, radius) ==
  [m EXCEPT !.calls = @ \o <<Call("circleMarker", "quakes", <<radius>>)>>]

\* the forEach callback of loadQuakes (app.js:85-100)
QuakeFeature(m, f) ==
  IF ~(f.geometry /\ f.coordinates) THEN m
  ELSE addLayer(circleMarker(m, CircleRadius(f.mag)), "quakes")

RECURSIVE QuakeForEach(_, _)
QuakeForEach(m, fs) ==
  IF fs = <<>> \/ m.err # "" THEN m
  ELSE QuakeForEach(QuakeFeature(m, Head(fs)), Tail(fs))

\* ------------------------------------------------------------ requests
\* The query of a request; a parameter the endpoint does not take is
\* NoText / NoNumber.
NoText == ""

NoNumber == [nan |-> FALSE, num |-> 0, digits |-> -1]

BrandQuery(brand, bbox) ==
  [endpoint |-> "/api/osm/brand", brand |-> brand, hours |-> NoNumber,
   minmag |-> NoNumber, bbox |-> bbox]

QuakesQuery(hours, minmag, bbox) ==
  [endpoint |-> "/api/usgs/quakes", brand |-> NoText, hours |-> hours,
   minmag |-> minmag, bbox |-> bbox]

\* fetch(url) inside fetchJSON (app.js:50): the request leaves and the
\* invocation waits for it at the load of key
fetch(m, key, query) ==
  [m EXCEPT !.inflight = @ \cup {[inv |-> m.inv, key |-> key, query |-> query]},
            !.issued = Append(@, key),
            !.calls = @ \o <<Call("fetch", key, <<>>)>>]

\* ------------------------------------------------------------ the loads
\* loadBrand with the bounding box computed once, when the script ran
loadBrandStartCachedBBox(m, brand, key) ==
  LET bbox == getBBox(InitialViewport)
  IN fetch(setStatus(m, <<"Loading ", brand, "...">>), key, BrandQuery(brand, bbox))

\* loadBrand up to its await (app.js:66-68)
loadBrandStart(m, brand, key) ==
  LET bbox == getBBox(view)
  IN fetch(setStatus(m, <<"Loading ", brand, "...">>), key, BrandQuery(brand, bbox))

\* loadBrand reporting the count as soon as the response is parsed, before
\* the points are added and the group attached
loadBrandResumeReportsFirst(m, resp, brand, key) ==
  LET r == fetchJSON(resp)
  IN IF r.err # "" THEN Throw(m, r.err)
     ELSE LET reported == setStatus(m, <<"Loaded ", brand, ": ", ToString(FeatureCount(r.gj))>>)
              added == addGeoJSONPointsToCluster(reported, r.gj, key)
          IN IF added.err # "" THEN added ELSE ensureLayer(added, key)

\* loadBrand from its await on (app.js:68-74)
loadBrandResume(m, resp, brand, key) ==
  LET r == fetchJSON(resp)
  IN IF r.err # "" THEN Throw(m, r.err)
     ELSE LET added == addGeoJSONPointsToCluster(m, r.gj, key)
          IN IF added.err # "" THEN added
             ELSE setStatus(ensureLayer(added, key),
                            <<"Loaded ", brand, ": ", ToString(FeatureCount(r.gj))>>)

\* loadQuakes up to its await (app.js:78-83)
loadQuakesStart(m) ==
  LET bbox == getBBox(view)
      hours == NumberOrDefault(qHours, DefaultHours)
      minmag == NumberOrDefault(qMinMag, DefaultMinMag)
  IN fetch(setStatus(m, <<"Loading earthquakes...">>), "quakes",
           QuakesQuery(hours, minmag, bbox))

\* loadQuakes from its await on (app.js:83-103)
loadQuakesResume(m, resp) ==
  LET r == fetchJSON(resp)
  IN IF r.err # "" THEN Throw(m, r.err)
     ELSE IF r.gj.json = "null" THEN Throw(m, "Cannot read properties of null")
     ELSE setStatus(ensureLayer(QuakeForEach(m, FeaturesOrEmpty(r.gj)), "quakes"),
                    <<"Loaded earthquakes: ", ToString(FeatureCount(r.gj))>>)

\* the call in the j-th statement of the try block (app.js:115-118)
LoadStart(m, key) ==
  IF key = "quakes" THEN loadQuakesStart(m) ELSE loadBrandStart(m, Label(key), key)

LoadResume(m, resp, key) ==
  IF key = "quakes" THEN loadQuakesResume(m, resp)
  ELSE loadBrandResume(m, resp, Label(key), key)

\* ---------------------------------------------------------- refresh()
\* the clearing statements with their tests inverted: the ticked datasets
\* are cleared
RECURSIVE ClearTicked(_, _)
ClearTicked(m, j) ==
  IF j > Len(Keys) THEN m
  ELSE ClearTicked(IF checked[Keys[j]] THEN clearLayer(m, Keys[j]) ELSE m, j + 1)

\* the clearing statements without their tests: every dataset is cleared
RECURSIVE ClearEvery(_, _)
ClearEvery(m, j) ==
  IF j > Len(Keys) THEN m ELSE ClearEvery(clearLayer(m, Keys[j]), j + 1)

\* the four clearing statements (app.js:108-111), from the j-th on
RECURSIVE ClearUnchecked(_, _)
ClearUnchecked(m, j) ==
  IF j > Len(Keys) THEN m
  ELSE ClearUnchecked(IF ~checked[Keys[j]] THEN clearLayer(m, Keys[j]) ELSE m, j + 1)

\* the try block without its tests: the j-th dataset is loaded whether its
\* box is ticked or not
TryFromIgnoresToggle(m, j) ==
  IF j > Len(Keys) THEN [setStatus(m, <<"Done.">>) EXCEPT !.phase = "done"]
  ELSE LoadStart(m, Keys[j])

\* the try block with its awaits forgotten: every checked dataset from j on
\* starts loading at once
RECURSIVE TryFromUnawaited(_, _)
TryFromUnawaited(m, j) ==
  IF j > Len(Keys) THEN [setStatus(m, <<"Done.">>) EXCEPT !.phase = "done"]
  ELSE TryFromUnawaited(IF checked[Keys[j]] THEN LoadStart(m, Keys[j]) ELSE m, j + 1)

\* the try block from its j-th statement (app.js:115-119) up to the next
\* await: the first checked dataset from j on starts loading, and with
\* none left the status becomes "Done."
RECURSIVE TryFrom(_, _)
TryFrom(m, j) ==
  IF j > Len(Keys) THEN [setStatus(m, <<"Done.">>) EXCEPT !.phase = "done"]
  ELSE IF checked[Keys[j]] THEN LoadStart(m, Keys[j])
  ELSE TryFrom(m, j + 1)

\* refresh() without its catch block: the error leaves the function as a
\* rejected promise nobody handles and no status is set
CatchNothing(m) == [m EXCEPT !.err = ""]

\* the catch block (app.js:120-123)
Catch(m) ==
  LET logged == [m EXCEPT !.calls = @ \o <<Call("console.error", "", <<m.err>>)>>]
  IN [setStatus(logged, <<"Error: ", m.err>>) EXCEPT !.phase = "failed", !.err = ""]

\* refresh() aborting, on entry, the requests of the invocations before it
refreshStartAborts(m) == TryFrom(ClearUnchecked([m EXCEPT !.inflight = {}], 1), 1)

\* refresh() from its entry to its first await or its end (app.js:106-124)
refreshStart(m) == TryFrom(ClearUnchecked(m, 1), 1)

\* refresh() with a generation check: a response that arrives after a
\* later invocation has started is dropped and the invocation ends
refreshResumeDropsStale(m, req, resp) ==
  LET arrived == [m EXCEPT !.inflight = @ \ {req}]
      loaded == LoadResume(arrived, resp, req.key)
  IN IF \E h \in Invocations : h > m.inv /\ phase[h] # "idle"
     THEN [arrived EXCEPT !.phase = "done"]
     ELSE IF loaded.err # "" THEN Catch(loaded) ELSE TryFrom(loaded, KeyIndex(req.key) + 1)

\* refresh() from the settling of the fetch it awaits to its next await
\* or its end: the load finishes or throws, then the try block goes on
refreshResume(m, req, resp) ==
  LET arrived == [m EXCEPT !.inflight = @ \ {req}]
      loaded == LoadResume(arrived, resp, req.key)
  IN IF loaded.err # "" THEN Catch(loaded) ELSE TryFrom(loaded, KeyIndex(req.key) + 1)

\* ------------------------------------------------------------- actions
\* A turn: "script", "click" or "response"; the invocation that ran; for
\* a response the key of the request and what its fetch settled with; the
\* calls made.
Turn(kind, inv, key, resp, calls) ==
  [kind |-> kind, inv |-> inv, key |-> key, resp |-> resp, calls |-> calls]

NoResponse ==
  [settled |-> "none", ok |-> FALSE, status |-> 0, statusText |-> "", body |-> EmptyBody]

\* the state a turn leaves
Commit(m, kind, key, resp) ==
  /\ points' = m.points
  /\ attached' = m.attached
  /\ status' = m.status
  /\ inflight' = m.inflight
  /\ phase' = [phase EXCEPT ![m.inv] = m.phase]
  /\ issued' = [issued EXCEPT ![m.inv] = m.issued]
  /\ turn' = Turn(kind, m.inv, key, resp, m.calls)

Ready == <<"Ready. Zoom in, select layers, hit Refresh.">>

\* the script has run (app.js:1-148): empty, detached clusters, the
\* initial view, the status "Ready...", no refresh yet
InitProgram ==
  /\ view = InitialViewport
  /\ points = [k \in KeySet |-> 0]
  /\ attached = [k \in KeySet |-> FALSE]
  /\ status = Ready
  /\ inflight = {}
  /\ phase = [i \in Invocations |-> "idle"]
  /\ issued = [i \in Invocations |-> <<>>]
  /\ turn = Turn("script", 0, "", NoResponse, <<Call("setStatus", "", Ready)>>)

\* the click listener (app.js:126): the next invocation of refresh()
Click ==
  /\ \E i \in Invocations :
       /\ phase[i] = "idle"
       /\ \A h \in Invocations : h < i => phase[h] # "idle"
       /\ Commit(refreshStart(Machine(i)), "click", "", NoResponse)
  /\ UNCHANGED <<checked, qHours, qMinMag, view>>

\* the fetch of a request settles and its invocation resumes
Respond ==
  /\ \E req \in inflight, resp \in Responses :
       Commit(refreshResume(Machine(req.inv), req, resp), "response", req.key, resp)
  /\ UNCHANGED <<checked, qHours, qMinMag, view>>

\* Only refresh() reads a checkbox, and each invocation reads them in the
\* order of Keys: checkbox k can still be read while one of the invocations
\* 1..last is to come or an invocation waits at a load before k.
StillRead(k, last) ==
  \/ \E i \in 1..last : phase[i] = "idle"
  \/ \E r \in inflight : KeyIndex(r.key) < KeyIndex(k)

\* the user ticks or unticks layer checkbox k
Flip(k) ==
  /\ checked' = [checked EXCEPT ![k] = ~@]
  /\ UNCHANGED <<qHours, qMinMag, view, points, attached, status, inflight,
                 phase, issued, turn>>

\* The user changes a checkbox; a change that no modelled invocation can
\* still read is left out.
Toggle == \E k \in KeySet : StillRead(k, MaxRefresh) /\ Flip(k)

\* what the user may have typed in the hours and minmag inputs
InputValues ==
  { <<>>, <<"a", "b", "c">>, <<"1", "2">>, <<"2", ".", "5">>, <<"0">> }

Init ==
  /\ InitProgram
  /\ checked \in [KeySet -> BOOLEAN]
  /\ qHours = <<>>
  /\ qMinMag = <<>>

Next == Click \/ Respond \/ Toggle

\* refresh invocations overlapping freely, the checkboxes changing under them
Spec == Init /\ [][Next]_vars

\* one refresh running alone: the checkboxes and the inputs are as the
\* user left them before the click and stay so
InitSolo ==
  /\ InitProgram
  /\ checked \in [KeySet -> BOOLEAN]
  /\ qHours \in InputValues
  /\ qMinMag \in InputValues

ClickAlone == phase[1] = "idle" /\ Click

NextSolo == ClickAlone \/ Respond

SpecSolo == InitSolo /\ [][NextSolo]_vars

\* two refreshes one after the other, the second clicked once the first has
\* ended, the checkboxes changing at any time
ClickAgain == phase[1] \in {"done", "failed"} /\ phase[2] = "idle" /\ Click

ToggleTwo == \E k \in KeySet : StillRead(k, 2) /\ Flip(k)

NextTwo == ClickAlone \/ ClickAgain \/ Respond \/ ToggleTwo

SpecTwo == Init /\ [][NextTwo]_vars

\* Refresh invocations overlapping, the checkboxes as they were at the
\* start, and every request answered in the end: a fetch that is pending
\* settles, and the event loop then runs the continuation that awaits it.
NextAnswered == Click \/ Respond

SpecAnswered == Init /\ [][NextAnswered]_vars /\ WF_vars(Respond)

\* the moveend listener with its refresh() call not commented out
moveendRefreshes ==
  \E i \in Invocations :
    /\ phase[i] = "idle"
    /\ \A h \in Invocations : h < i => phase[h] # "idle"
    /\ Commit(refreshStart(Machine(i)), "moveend", "", NoResponse)

\* the moveend listener (app.js:143-146): its body is a comment
moveend ==
  /\ turn' = Turn("moveend", 0, "", NoResponse, <<>>)
  /\ UNCHANGED <<points, attached, status, inflight, phase, issued>>

\* the user pans or zooms the map: the bounds change, moveend fires
MoveMap ==
  /\ \E v \in Viewports \ {view} : view' = v
  /\ moveend
  /\ UNCHANGED <<checked, qHours, qMinMag>>

\* The bounds after map.setView on one of the spots (app.js:129-140); the
\* model has the bounds around the first spot.
SpotViewports == {v \in Viewports : v.south = 33703652}

\* the click listener of the random button (app.js:128-141)
Random ==
  /\ \E v \in SpotViewports : view' = v
  /\ moveend
  /\ UNCHANGED <<checked, qHours, qMinMag>>

\* one refresh, the map moving at any time before, during and after it
NextView == ClickAlone \/ Respond \/ MoveMap \/ Random

SpecView == Init /\ [][NextView]_vars

\* two refreshes one after the other, the map moving only while a load
\* awaits its response
MoveWhileLoading == inflight # {} /\ MoveMap

NextPan == ClickAlone \/ ClickAgain \/ Respond \/ MoveWhileLoading

SpecPan == Init /\ [][NextPan]_vars

\* two refreshes one after the other, each running alone: the boxes change
\* only between the end of the first and the click of the second, which
\* so starts from whatever the first left in the groups
ToggleBetween ==
  /\ phase[1] \in {"done", "failed"}
  /\ phase[2] = "idle"
  /\ \E k \in KeySet : Flip(k)

NextRerun == ClickAlone \/ ClickAgain \/ Respond \/ ToggleBetween

SpecRerun == Init /\ [][NextRerun]_vars

\* a successful response carrying a collection of features
Collection(fs) ==
  [settled |-> "fulfilled", ok |-> TRUE, status |-> 200, statusText |-> "OK",
   body |-> [json |-> "object", hasFeatures |-> TRUE, features |-> fs]]

\* one refresh of the seismic dataset alone, the service answering with
\* located features of any magnitude
InitQuakes ==
  /\ InitProgram
  /\ checked = [k \in KeySet |-> k = "quakes"]
  /\ qHours = <<>>
  /\ qMinMag = <<>>

RespondQuakes ==
  /\ \E req \in inflight, fs \in QuakeSeqs :
       Commit(refreshResume(Machine(req.inv), req, Collection(fs)),
              "response", req.key, Collection(fs))
  /\ UNCHANGED <<checked, qHours, qMinMag, view>>

NextQuakes == ClickAlone \/ RespondQuakes

SpecQuakes == InitQuakes /\ [][NextQuakes]_vars

\* ---------------------------------------------------- reading a turn
\* positions in calls of the calls of op on key
CallsAt(calls, op, key) ==
  {p \in 1..Len(calls) : calls[p].op = op /\ calls[p].key = key}

\* positions in calls of the calls of op
OpAt(calls, op) == {p \in 1..Len(calls) : calls[p].op = op}

\* a turn ran in this step
TurnTaken == turn' # turn

RequestsOf(set, i) == {r \in set : r.inv = i}

LastIssued(i) == issued[i][Len(issued[i])]

\* --------------------------------------------------------------- claims

\* C1: within one refresh invocation the queries go out in the order mcd,
\* starbucks, dg, quakes; an invocation has at most one request in flight,
\* and it is the one it issued last; a turn issues at most one query, and a
\* response turn issues its query only after the response it handles has
\* been applied to its layer (ensureLayer of that key), for a later key.
C1_SequentialLoads ==
  /\ \A i \in Invocations :
       /\ \A a, b \in 1..Len(issued[i]) :
            a < b => KeyIndex(issued[i][a]) < KeyIndex(issued[i][b])
       /\ Cardinality(RequestsOf(inflight, i)) <= 1
       /\ \A r \in RequestsOf(inflight, i) : r.key = LastIssued(i)
  /\ Cardinality(OpAt(turn.calls, "fetch")) <= 1
  /\ \A p \in OpAt(turn.calls, "fetch") :
       /\ turn.kind = "click" => issued[turn.inv] = <<turn.calls[p].key>>
       /\ turn.kind = "response" =>
            /\ KeyIndex(turn.key) < KeyIndex(turn.calls[p].key)
            /\ \E q \in CallsAt(turn.calls, "ensureLayer", turn.key) : q < p

\* C1 witness: an invocation has all four loads behind it or under way, the
\* fourth in flight after the first three were applied
C1_Witness ==
  \E i \in Invocations :
    /\ issued[i] = Keys
    /\ RequestsOf(inflight, i) # {}
    /\ \A k \in {"mcd", "starbucks", "dg"} : attached[k]

\* C2: a click turn clears every dataset whose checkbox is unticked at the
\* click, before its first query: the group is empty and off the map when
\* the turn ends, and the clearLayer call precedes every fetch call.
C2_ClearBeforeFirstQuery ==
  [][(TurnTaken /\ turn'.kind = "click") =>
       \A k \in KeySet : ~checked[k] =>
         /\ points'[k] = 0
         /\ ~attached'[k]
         /\ \E p \in CallsAt(turn'.calls, "clearLayer", k) :
              \A q \in OpAt(turn'.calls, "fetch") : p < q]_vars

\* C2 witness: the second click has cleared a dataset the first invocation
\* had queried, and has issued a query after the clear
C2_Witness ==
  /\ turn.kind = "click"
  /\ turn.inv = 2
  /\ \E k \in KeySet :
       /\ \E a \in 1..Len(issued[1]) : issued[1][a] = k
       /\ CallsAt(turn.calls, "clearLayer", k) # {}
  /\ OpAt(turn.calls, "fetch") # {}

\* the Data Client call fails: no response, a non-success status, or a
\* body that does not parse
DataClientFails(resp) ==
  resp.settled = "rejected" \/ ~resp.ok \/ resp.body.json = "invalid"

\* C3: the turn in which a Data Client call fails issues no query, never
\* sets "Done.", and ends with a status starting with "Error:" and the
\* invocation failed with nothing in flight; a failed invocation never runs
\* again, so it issues no further query and never sets a status.
C3_FailureAborts ==
  [][/\ (TurnTaken /\ turn'.kind = "response" /\ DataClientFails(turn'.resp)) =>
          /\ phase'[turn'.inv] = "failed"
          /\ Head(status') = "Error: "
          /\ OpAt(turn'.calls, "fetch") = {}
          /\ \A p \in OpAt(turn'.calls, "setStatus") : turn'.calls[p].msg # <<"Done.">>
          /\ RequestsOf(inflight', turn'.inv) = {}
     /\ \A i \in Invocations : phase[i] = "failed" =>
          /\ phase'[i] = "failed"
          /\ issued'[i] = issued[i]
          /\ RequestsOf(inflight', i) = {}
          /\ ~(TurnTaken /\ turn'.inv = i)]_vars

\* C3 witness: an invocation failed on an HTTP 500 at one of its first three
\* loads while a later dataset is still ticked, which it never queries
C3_Witness ==
  \E i \in Invocations, k \in KeySet :
    /\ phase[i] = "failed"
    /\ turn.inv = i
    /\ turn.resp.status = 500
    /\ Head(status) = "Error: "
    /\ KeyIndex(turn.key) < KeyIndex(k)
    /\ checked[k]
    /\ \A a \in 1..Len(issued[i]) : issued[i][a] # k

ReturnsCollection(resp) ==
  /\ resp.settled = "fulfilled"
  /\ resp.ok
  /\ resp.body.json = "object"
  /\ resp.body.hasFeatures
  /\ \A p \in 1..Len(resp.body.features) :
       LET f == resp.body.features[p]
       IN (f.geometry /\ f.type = "Point") => f.coordinates

\* the features of a body whose geometry is a Point
PointFeatures(body) ==
  {p \in 1..Len(body.features) : body.features[p].geometry /\ body.features[p].type = "Point"}

\* C5: one refresh alone from the initial state, every query succeeding:
\* when a load ends its group is attached and holds one point per returned
\* Point feature, and when the refresh ends the status is "Done.", every
\* ticked dataset is attached and every unticked one is empty and detached.
C5_SoloOutcome ==
  /\ (turn.kind = "response" /\ ReturnsCollection(turn.resp)) =>
       /\ attached[turn.key]
       /\ points[turn.key] = Cardinality(PointFeatures(turn.resp.body))
  /\ phase[1] = "done" =>
       /\ status = <<"Done.">>
       /\ \A k \in KeySet : checked[k] => attached[k]
       /\ \A k \in KeySet : ~checked[k] => (points[k] = 0 /\ ~attached[k])

\* the collection holds nothing but Point geometries with coordinates
WellFormedPoints(resp) ==
  /\ ReturnsCollection(resp)
  /\ PointFeatures(resp.body) = 1..Len(resp.body.features)

\* C6: a response is applied however late it is: when the fetch of an
\* invocation settles with well-formed points after a later invocation has
\* started, the points are added to the group and the group is attached.
C6_StaleResponseApplied ==
  [][(/\ TurnTaken
      /\ turn'.kind = "response"
      /\ \E h \in Invocations : h > turn'.inv /\ phase[h] # "idle"
      /\ WellFormedPoints(turn'.resp)) =>
       /\ attached'[turn'.key]
       /\ points'[turn'.key] = points[turn'.key] + Len(turn'.resp.body.features)]_vars

\* C6 witness: the second refresh found every box unticked, cleared every
\* group and was done in its click turn; the response the first refresh
\* was waiting for arrived afterwards; both are done and an unticked
\* dataset is on the map with a point
C6_Witness ==
  /\ phase[1] = "done"
  /\ phase[2] = "done"
  /\ issued[2] = <<>>
  /\ inflight = {}
  /\ turn.kind = "response"
  /\ turn.inv = 1
  /\ \A k \in KeySet : ~checked[k]
  /\ attached[turn.key]
  /\ points[turn.key] > 0

C8_ClearIdempotent ==
  \A k \in KeySet :
    LET once == clearLayer(Machine(1), k)
        twice == clearLayer(once, k)
    IN /\ once.points[k] = 0
       /\ ~once.attached[k]
       /\ \A j \in KeySet \ {k} :
            once.points[j] = points[j] /\ once.attached[j] = attached[j]
       /\ twice.points = once.points
       /\ twice.attached = once.attached
       /\ (points[k] = 0 /\ ~attached[k]) =>
            (once.points = points /\ once.attached = attached)

\* C8 witness: two groups hold points and are attached, a third is empty
\* and detached
C8_Witness ==
  \E k, j, e \in KeySet :
    /\ k # j
    /\ points[k] > 0 /\ attached[k]
    /\ points[j] > 0 /\ attached[j]
    /\ points[e] = 0 /\ ~attached[e]

\* the number an input text stands for, and whether it stands for one
NumericTexts == { <<"1", "2">>, <<"2", ".", "5">>, <<"0">> }

NumberWritten(text) ==
  CASE text = <<"1", "2">> -> [nan |-> FALSE, num |-> 12, digits |-> 0]
    [] text = <<"2", ".", "5">> -> [nan |-> FALSE, num |-> 25, digits |-> 1]
    [] text = <<"0">> -> [nan |-> FALSE, num |-> 0, digits |-> 0]

\* C9: the seismic query carries hours = 24 when the hours input is empty
\* or not a number and the number typed otherwise, and minmag = 2.5 when
\* the minmag input is empty or not a number and the number typed otherwise.
C9_QuakeDefaults ==
  \A r \in inflight : r.key = "quakes" =>
    /\ r.query.hours =
         IF qHours \in NumericTexts THEN NumberWritten(qHours)
         ELSE [nan |-> FALSE, num |-> 24, digits |-> 0]
    /\ r.query.minmag =
         IF qMinMag \in NumericTexts THEN NumberWritten(qMinMag)
         ELSE [nan |-> FALSE, num |-> 25, digits |-> 1]

\* C10: for every dataset, the load of a returned collection adds one
\* point per feature with a Point geometry and none for a feature whose
\* geometry is missing or of another type.
C10_OnlyPointFeaturesAdd ==
  (turn.kind = "response" /\ ReturnsCollection(turn.resp)) =>
    Cardinality(CallsAt(turn.calls, "addLayer", turn.key))
      = Cardinality(PointFeatures(turn.resp.body))

\* the markers a turn made: the radius of each, in the order made
RECURSIVE RadiiOf(_)
RadiiOf(calls) ==
  IF calls = <<>> THEN <<>>
  ELSE IF Head(calls).op = "circleMarker"
       THEN <<Head(calls).msg[1]>> \o RadiiOf(Tail(calls))
       ELSE RadiiOf(Tail(calls))

\* magnitude * 2 clamped to [4, 16], in tenths, for a magnitude in tenths
ClampedTenths(t) == IF 2 * t < 40 THEN 40 ELSE IF 2 * t > 160 THEN 160 ELSE 2 * t

\* C11: every marker of a seismic load has a radius that is a number
\* within [4, 16]; for a feature with a magnitude it is the magnitude
\* times 2 clamped to [4, 16] (so 1 gives 4, 5 gives 10, 20 gives 16, and
\* a larger magnitude never gives a smaller radius); a feature without a
\* magnitude gets a radius within [4, 16] too.
C11_SeismicRadius ==
  (turn.kind = "response" /\ turn.key = "quakes" /\ ReturnsCollection(turn.resp)) =>
    LET fs == turn.resp.body.features
        radii == RadiiOf(turn.calls)
    IN /\ Len(radii) = Len(SelectSeq(fs, LAMBDA f : f.geometry /\ f.coordinates))
       /\ \A p \in 1..Len(radii) :
            /\ ~radii[p].nan
            /\ ~LessThan(radii[p], Num(4))
            /\ ~LessThan(Num(16), radii[p])
       /\ \A p \in 1..Len(fs) :
            (Len(radii) = Len(fs) /\ fs[p].mag.type = "number") =>
              radii[p] = Tenths(ClampedTenths(fs[p].mag.num.num * Pow10(1 - fs[p].mag.num.digits)))

\* the response has a non-success status
NonSuccess(resp) == resp.settled = "fulfilled" /\ ~resp.ok

\* the response has a success status and a body that is not a feature
\* collection: text that does not parse, or a value without a features
\* member
Malformed(resp) ==
  /\ resp.settled = "fulfilled"
  /\ resp.ok
  /\ (resp.body.json # "object" \/ ~resp.body.hasFeatures)

\* positions in calls of the "Loaded ..." statuses
LoadedAt(calls) ==
  {p \in OpAt(calls, "setStatus") :
     Head(calls[p].msg) \in {"Loaded ", "Loaded earthquakes: "}}

\* C12: a response with a non-success status fails the load with an error
\* that carries the numeric status and the status text; a malformed body
\* fails the load, ends the refresh with an "Error:" status and is never
\* reported as loaded; a collection of zero features is reported as loaded,
\* with the count 0, and the refresh goes on.
C12_ResponseClassified ==
  turn.kind = "response" =>
    /\ NonSuccess(turn.resp) =>
         /\ phase[turn.inv] = "failed"
         /\ status = <<"Error: ", ToString(turn.resp.status) \o " " \o turn.resp.statusText>>
         /\ LoadedAt(turn.calls) = {}
    /\ Malformed(turn.resp) =>
         /\ phase[turn.inv] = "failed"
         /\ Head(status) = "Error: "
         /\ LoadedAt(turn.calls) = {}
    /\ (ReturnsCollection(turn.resp) /\ turn.resp.body.features = <<>>) =>
         /\ phase[turn.inv] # "failed"
         /\ \E p \in LoadedAt(turn.calls) :
              turn.calls[p].msg[Len(turn.calls[p].msg)] = "0"
         /\ attached[turn.key]

Terminal == {"done", "failed"}

\* C13: when every request is answered in the end, every refresh that was
\* started ends, and the turn that ends it sets "Done." or "Error: ...";
\* an invocation is running exactly while a request of its own is
\* unanswered, and as long as that request stays unanswered no turn of the
\* invocation runs: it issues no further query and its outcome stays open,
\* whatever the other invocations do.
C13_AnsweredRefreshEnds ==
  /\ \A i \in Invocations : (phase[i] = "running") ~> (phase[i] \in Terminal)
  /\ [](\A i \in Invocations : phase[i] = "running" <=> RequestsOf(inflight, i) # {})
  /\ [][\A i \in Invocations :
         /\ (phase[i] \notin Terminal /\ phase'[i] \in Terminal) =>
              /\ turn'.inv = i
              /\ status' = <<"Done.">> \/ Head(status') = "Error: "
              /\ OpAt(turn'.calls, "setStatus") # {}
         /\ (RequestsOf(inflight, i) # {} /\ RequestsOf(inflight', i) = RequestsOf(inflight, i)) =>
              /\ phase'[i] = "running"
              /\ issued'[i] = issued[i]
              /\ ~(TurnTaken /\ turn'.inv = i)]_vars

\* C13 witness: the first refresh still waits for the answer to its first
\* query, and a refresh triggered after it has queried and is done
C13_Witness ==
  /\ phase[1] = "running"
  /\ Len(issued[1]) = 1
  /\ RequestsOf(inflight, 1) # {}
  /\ phase[2] = "done"
  /\ issued[2] # <<>>
  /\ status = <<"Done.">>

\* the ticked datasets after key, in the order of Keys
TickedAfter(key) == {k \in KeySet : KeyIndex(k) > KeyIndex(key) /\ checked[k]}

\* C14: a turn of one invocation, be it the click that starts it, a load
\* that succeeds or a load that fails, leaves every other invocation as it
\* was: its phase, the queries it has issued, its request in flight; and an
\* invocation whose query is answered with a collection goes on, in that
\* same turn and whatever other invocations have started or failed, to the
\* next ticked dataset, or is done if there is none.
C14_InvocationsIndependent ==
  [][TurnTaken =>
       /\ \A i \in Invocations \ {turn'.inv} :
            /\ phase'[i] = phase[i]
            /\ issued'[i] = issued[i]
            /\ RequestsOf(inflight', i) = RequestsOf(inflight, i)
       /\ (turn'.kind = "response" /\ ReturnsCollection(turn'.resp)) =>
            IF TickedAfter(turn'.key) = {}
            THEN phase'[turn'.inv] = "done" /\ RequestsOf(inflight', turn'.inv) = {}
            ELSE /\ phase'[turn'.inv] = "running"
                 /\ \E r \in RequestsOf(inflight', turn'.inv) :
                      /\ r.key \in TickedAfter(turn'.key)
                      /\ \A k \in TickedAfter(turn'.key) : KeyIndex(r.key) <= KeyIndex(k)]_vars

\* C14 witness: the first refresh has just failed on an HTTP 500 at its
\* second load or later, while the second refresh, started meanwhile, has
\* its own second query or later in flight
C14_Witness ==
  /\ turn.kind = "response"
  /\ turn.inv = 1
  /\ turn.resp.status = 500
  /\ phase[1] = "failed"
  /\ Len(issued[1]) >= 2
  /\ phase[2] = "running"
  /\ Len(issued[2]) >= 2
  /\ RequestsOf(inflight, 2) # {}

\* the "Loading ..." and the head of the "Loaded ..." status of a dataset
LoadingText(key) ==
  IF key = "quakes" THEN <<"Loading earthquakes...">> ELSE <<"Loading ", Label(key), "...">>

LoadedHead(key) ==
  IF key = "quakes" THEN <<"Loaded earthquakes: ">> ELSE <<"Loaded ", Label(key), ": ">>

\* C15: in a refresh running alone, each query is issued right after the
\* "Loading <dataset>..." status of its dataset; a "Loaded <dataset>:
\* <count>" status is set only in the turn that handles the dataset's
\* response, after every point of the turn has been added and right after
\* the attachment of the group, and before the next dataset's "Loading";
\* a response turn sets "Loaded" unless the refresh fails in it; and the
\* last call of the turn that ends the refresh sets the final status,
\* "Done." when no load failed and "Error: <message>" when one did.
C15_StatusOrder ==
  LET calls == turn.calls
      loaded == LoadedAt(calls)
  IN /\ \A p \in OpAt(calls, "fetch") :
          /\ p > 1
          /\ calls[p - 1].op = "setStatus"
          /\ calls[p - 1].msg = LoadingText(calls[p].key)
          /\ \A q \in loaded : q < p - 1
     /\ \A p \in loaded :
          /\ turn.kind = "response"
          /\ SubSeq(calls[p].msg, 1, Len(calls[p].msg) - 1) = LoadedHead(turn.key)
          /\ p > 1
          /\ calls[p - 1].op = "ensureLayer"
          /\ calls[p - 1].key = turn.key
          /\ attached[turn.key]
          /\ \A q \in OpAt(calls, "addLayer") : q < p - 1 /\ calls[q].key = turn.key
     /\ turn.kind = "response" => (loaded # {} <=> phase[1] # "failed")
     /\ phase[1] \in Terminal =>
          /\ calls[Len(calls)].op = "setStatus"
          /\ calls[Len(calls)].msg = status
          /\ phase[1] = "done" => status = <<"Done.">>
          /\ phase[1] = "failed" =>
               /\ Len(status) = 2
               /\ Head(status) = "Error: "
               /\ status[2] # ""

\* C15 witness: the refresh loaded all four datasets and is done; its last
\* turn added a seismic point, attached the group, set "Loaded
\* earthquakes: 1" and then "Done."
C15_Witness ==
  /\ phase[1] = "done"
  /\ issued[1] = Keys
  /\ turn.key = "quakes"
  /\ OpAt(turn.calls, "addLayer") # {}
  /\ \E p \in LoadedAt(turn.calls) : turn.calls[p].msg = <<"Loaded earthquakes: ", "1">>
  /\ status = <<"Done.">>

\* C16: every query that a turn issues carries the bounds of the map as
\* they are in that turn, south, west, north, east, each rounded to five
\* decimals: the bounds at the start of that dataset's load, whatever they
\* were at the click or at an earlier load.
C16_FreshBBox ==
  [][\A r \in inflight' \ inflight :
       /\ view' = view
       /\ r.query.bbox = <<ToFixed5(view.south), ToFixed5(view.west),
                           ToFixed5(view.north), ToFixed5(view.east)>>]_vars

\* C16 witness: the map has moved only while a load of the first refresh
\* awaited its response, and a later query of that refresh is in flight
\* with bounds other than those the map had at the click
C16_Witness ==
  /\ phase[2] = "idle"
  /\ Len(issued[1]) >= 2
  /\ \E r \in RequestsOf(inflight, 1) :
       /\ r.query.bbox # getBBox(InitialViewport)
       /\ r.query.bbox = getBBox(view)

\* C17: a turn in which the bounds of the map change makes no call at
\* all: it issues no query, starts no refresh, leaves the points and the
\* attachment of every group and the status as they were.
C17_MoveDoesNotRefresh ==
  [][view' # view =>
       /\ turn'.kind = "moveend"
       /\ turn'.calls = <<>>
       /\ inflight' = inflight
       /\ phase' = phase
       /\ issued' = issued
       /\ points' = points
       /\ attached' = attached
       /\ status' = status]_vars

\* C17 witness: the map has just moved away from its initial bounds while
\* no refresh has been started, and nothing has been queried or loaded
C17_Witness ==
  /\ turn.kind = "moveend"
  /\ view # InitialViewport
  /\ phase[1] = "idle"
  /\ inflight = {}
  /\ status = Ready
  /\ \A k \in KeySet : points[k] = 0 /\ ~attached[k]
  /\ \E k \in KeySet : checked[k]

\* every group that holds a point is on the map
PointsAttached == \A k \in KeySet : points[k] > 0 => attached[k]

\* the response carries a collection with a Point geometry that has no
\* coordinates
IllFormedPoint(resp) ==
  /\ resp.settled = "fulfilled"
  /\ resp.ok
  /\ resp.body.json = "object"
  /\ resp.body.hasFeatures
  /\ \E p \in 1..Len(resp.body.features) :
       LET f == resp.body.features[p]
       IN f.geometry /\ f.type = "Point" /\ ~f.coordinates

\* C18: between turns, that is initially, while requests are awaited and
\* after refreshes have ended, every group that holds a point is on the
\* map: this holds initially and every turn keeps it, however the refresh
\* invocations interleave, unless the turn handles a collection with an
\* ill-formed Point; within a turn every added point is followed, before
\* any query is issued, by the attachment of its group.
C18_PointsImplyAttached ==
  /\ PointsAttached
  /\ [][(TurnTaken /\ PointsAttached /\ ~IllFormedPoint(turn'.resp)) =>
         /\ PointsAttached'
         /\ \A p \in OpAt(turn'.calls, "addLayer") :
              \E q \in CallsAt(turn'.calls, "ensureLayer", turn'.calls[p].key) :
                /\ p < q
                /\ \A x \in OpAt(turn'.calls, "fetch") : q < x]_vars

\* C18 witness: the second refresh awaits a response; the first, whose
\* response came after the second had started, has just added a point to
\* a group whose box is unticked, and the group is on the map
C18_Witness ==
  /\ phase[2] = "running"
  /\ RequestsOf(inflight, 2) # {}
  /\ turn.kind = "response"
  /\ turn.inv = 1
  /\ OpAt(turn.calls, "addLayer") # {}
  /\ ~checked[turn.key]
  /\ points[turn.key] > 0
  /\ attached[turn.key]

\* the keys a turn queried
Fetched(calls) == {calls[p].key : p \in OpAt(calls, "fetch")}

\* the first of a non-empty set of keys, in the order of Keys
FirstOf(keys) == CHOOSE k \in keys : \A j \in keys : KeyIndex(k) <= KeyIndex(j)

====
